---------------------------- MODULE Spec2Model ----------------------------
(***************************************************************************)
(* hypercream: the audio side and the GPU side of the visualizer.          *)
(*                                                                         *)
(*   AudioAnalyzer (src/src/audio/AudioAnalyzer.ts): the Web Audio         *)
(*   pipeline (context, analyser node, media-element source), the reused   *)
(*   spectrum/waveform byte buffers and the scalar features.               *)
(*   BeatDetector (src/unnamed/part_003): the rolling energy history and   *)
(*   the three-gate beat decision.                                         *)
(*   PingPongFBO (src/src/core/PingPongFBO.ts), Program                    *)
(*   (src/src/core/Program.ts) and PresetRunner                            *)
(*   (src/src/presets/PresetRunner.ts): the feedback surface, the shader   *)
(*   program and the per-frame pipeline, over the state of the WebGL       *)
(*   context they drive.                                                   *)
(*   RenderLoop (src/unnamed/part_000): the frame scheduler, over the      *)
(*   animation-frame requests the browser holds for it.                    *)
(*                                                                         *)
(* Numbers.  The program computes in floating point; the model computes    *)
(* exactly.  An energy is an integer in units of 1/255 (EnergyOne = 1.0):  *)
(* getEnergy is the square root, rounded down to that unit, and the frames *)
(* fed to the detector (BeatFrames) have an exact root.  Thresholds and    *)
(* the beat strength are rationals [num, den]; a comparison against a      *)
(* square root is done on the squares.  Time is performance.now() in units *)
(* of 150 ms.                                                              *)
(***************************************************************************)
EXTENDS Integers, Sequences, FiniteSets, TLC

VARIABLES
    \* AudioAnalyzer
    fftSize,          \* constructor argument; spectrum has fftSize/2 bins
    audioContext,     \* "null" | "running"
    sampleRate,       \* audioContext.sampleRate in Hz; 0 while there is no context
    analyzerNode,     \* "null" | "idle" (no source routed into it) | "fed"
    sourceNode,       \* "null" | "node"
    spectrumData,     \* Uint8Array(fftSize / 2)
    waveformData,     \* Uint8Array(fftSize)
    destroyPending,   \* destroy() is suspended at `await audioContext.close()`
    \* environment
    elementUsed,      \* some media element already owns a source node
    now,              \* performance.now()
    \* BeatDetector
    threshold,        \* config.threshold
    minimumInterval,  \* config.minimumInterval
    energyHistory,
    lastBeatTime,
    isCurrentlyBeat,
    \* observation (history variables, not program state)
    op,               \* the last AudioAnalyzer call
    ret,              \* the BeatDetector call that produced this state, when it
                      \* was reset() or getBeatStrength() (with the value
                      \* returned), else NoRet
    samples,          \* the most recent <= HistoryLen + 1 energies fed to
                      \* update() since construction or reset()
    prevBeat,         \* clock of the last update() that reported a beat since
                      \* construction, reset() or a change of minimumInterval
    attached,         \* connectAudio was called since construction / destroy()
    failedConnect,    \* the last connectAudio call failed, and destroy() was
                      \* not called since
    \* PingPongFBO
    fbos,             \* WebGLFramebuffer[]: <<"fbo0", "fbo1">>, <<>> after destroy()
    textures,         \* WebGLTexture[]: <<"tex0", "tex1">>, <<>> after destroy()
    width,
    height,
    currentIndex,
    \* Program
    program,          \* "none" (no instance) | "live" | "deleted"
    uniforms,         \* Map: uniform name -> location
    attributes,       \* Map: attribute name -> location (the names)
    \* PresetRunner (currentProgram is the Program above, null when "none")
    currentPreset,    \* "null" | the preset's name
    startTime,
    frameCount,
    spectrumTexture,  \* "spectrumTex" | "null"
    audioTexture,     \* "audioTex" | "null"
    \* the WebGL context
    canvas,           \* gl.canvas: [width, height]
    glShaders,        \* shader objects created and not deleted
    glPrograms,       \* program objects created and not deleted
    glProgramInUse,   \* useProgram: "null" | "current" (the instance's
                      \* program) | "stale" (a program deleted while in use)
    glUniformValue,   \* the value each uniform of the instance's program holds
    glFramebuffer,    \* FRAMEBUFFER binding: "null" is the display
    glViewport,       \* [width, height]
    glClearColor,
    glActiveUnit,     \* activeTexture
    glUnits,          \* TEXTURE_2D binding of each texture unit
    texContent,       \* what each feedback texture holds
    audioTexContent,  \* the bytes uploaded to the spectrum / waveform texture
    screen,           \* what the display holds
    glDeleted,        \* delete calls received, per framebuffer / texture handle
    \* RenderLoop
    isRunning,
    animationId,      \* the last request's id, NoFrame for null
    lastTime,
    loopFrameCount,   \* RenderLoop.frameCount: ticks since the last FPS report
    fpsCallback,      \* an FPS observer is registered
    pending,          \* the ids of the animation-frame requests the browser holds, oldest first
    \* observation of the GPU side
    gpuOp,            \* the last GPU-side operation
    glCalls,          \* the WebGL calls that operation issued, in order
    gpuRet,           \* what it was asked, answered and threw
    steps,            \* the steps it went through, in order
    loadIndex         \* currentIndex when loadPreset last succeeded (at
                      \* construction before that)

analyzerVars == <<fftSize, audioContext, sampleRate, analyzerNode, sourceNode,
                  spectrumData, waveformData, destroyPending, elementUsed,
                  attached, failedConnect>>
detectorVars == <<threshold, minimumInterval, energyHistory, lastBeatTime,
                  isCurrentlyBeat, samples, prevBeat>>
fboVars == <<fbos, textures, width, height, currentIndex>>
programVars == <<program, uniforms, attributes>>
glVars == <<canvas, glShaders, glPrograms, glProgramInUse, glUniformValue,
            glFramebuffer, glViewport, glClearColor, glActiveUnit, glUnits,
            texContent, audioTexContent, screen, glDeleted>>
runnerVars == <<currentPreset, startTime, frameCount, spectrumTexture,
                audioTexture>>
loopVars == <<isRunning, animationId, lastTime, loopFrameCount, fpsCallback,
              pending>>
gpuVars == <<fboVars, programVars, runnerVars, glVars, loopVars, gpuOp, glCalls,
             gpuRet, steps, loadIndex>>
audioVars == <<analyzerVars, detectorVars, now, op, ret>>
vars == <<audioVars, gpuVars>>

---------------------------------------------------------------------------
(* Bounds *)

\* config.energyHistory (default 43): capacity N of the energy history
HistoryLen == 3
\* the clock runs from 0 to MaxTime
MaxTime == 3
\* the analyzer is constructed with 1..MaxBins spectrum bins
MaxBins == 3
\* canvas and feedback-surface widths and heights are 1..MaxSize
MaxSize == 2
\* a Program is constructed while fewer than MaxShaders shaders are alive
MaxShaders == 3
\* render() runs while frameCount is below MaxFrames
MaxFrames == 2
\* a second of the clock holds at most MaxTicks display refreshes
MaxTicks == 2

\* the browser holds at most MaxPending animation-frame requests of a loop
MaxPending == 2

---------------------------------------------------------------------------
(* Numbers *)

\* 255.0: the byte value that normalizes to 1.0
EnergyOne == 255

Zero == [num |-> 0, den |-> 1]
NoRet == [call |-> "none", value |-> Zero]
NoBeat == 0 - 1

RECURSIVE SeqSum(_)
SeqSum(s) == IF s = <<>> THEN 0 ELSE Head(s) + SeqSum(Tail(s))

RECURSIVE SumSqRange(_, _, _)
\* sum of s[i]^2 for lo <= i <= hi (1-based)
SumSqRange(s, lo, hi) ==
    IF lo > hi THEN 0 ELSE s[lo] * s[lo] + SumSqRange(s, lo + 1, hi)

RECURSIVE SqrtBetween(_, _, _)
\* the largest r in lo..hi with r * r <= x
SqrtBetween(x, lo, hi) ==
    IF lo >= hi THEN lo
    ELSE LET mid == (lo + hi + 1) \div 2
         IN  IF mid * mid <= x THEN SqrtBetween(x, mid, hi)
             ELSE SqrtBetween(x, lo, mid - 1)

\* Math.sqrt on a value of 0 .. EnergyOne^2, rounded down
ISqrt(x) == SqrtBetween(x, 0, EnergyOne)

Fill(n, v) == [i \in 1..n |-> v]

Min(a, b) == IF a < b THEN a ELSE b

Last(s) == s[Len(s)]

---------------------------------------------------------------------------
(* AudioAnalyzer *)

\* getEnergy(): sqrt(sum((b / 255)^2) / length), in units of 1/255
getEnergy_Div256(spectrum) ==
    IF Len(spectrum) = 0 THEN 0
    ELSE (ISqrt(SumSqRange(spectrum, 1, Len(spectrum)) \div Len(spectrum)) * 255) \div 256

getEnergy(spectrum) ==
    IF Len(spectrum) = 0 THEN 0
    ELSE ISqrt(SumSqRange(spectrum, 1, Len(spectrum)) \div Len(spectrum))

\* getBass(): bins 1 .. bassEnd-1 (0-based), divided by bassEnd
getBass(spectrum) ==
    IF Len(spectrum) = 0 THEN 0
    ELSE LET bassEnd == Min(12, Len(spectrum))
         IN  ISqrt(SumSqRange(spectrum, 2, bassEnd) \div bassEnd)

\* getTreble(): bins floor(0.75 * length) .. length-1 (0-based)
getTreble(spectrum) ==
    IF Len(spectrum) = 0 THEN 0
    ELSE LET trebleStart == (Len(spectrum) * 3) \div 4
             trebleEnd   == Len(spectrum)
         IN  ISqrt(SumSqRange(spectrum, trebleStart + 1, trebleEnd)
                     \div (trebleEnd - trebleStart))

\* What the analyser node writes on getByteFrequencyData/getByteTimeDomainData.
ByteSamples == {0, 128, 255}
WaveSamples == {0, 128, 255}

\* an analyser with no input processes silence: magnitudes 0, samples 128
SilenceFrame(n) == [spectrum |-> Fill(n \div 2, 0), waveform |-> Fill(n, 128)]

\* any signal (waveforms are kept constant-valued: no claim reads them)
AllFrames(n) ==
    {[spectrum |-> s, waveform |-> Fill(n, w)] :
        s \in [1..(n \div 2) -> ByteSamples], w \in WaveSamples}

\* the signal fed to the beat detector: frames whose RMS is exact
\* (0, 205/255 and 1)
BeatFrames ==
    {[spectrum |-> <<0, 0>>,     waveform |-> Fill(4, 128)],
     [spectrum |-> <<155, 245>>, waveform |-> Fill(4, 128)],
     [spectrum |-> <<255, 255>>, waveform |-> Fill(4, 128)]}

FailSteps == {"none", "context", "analyser", "source", "connect"}

\* the sample rates a new AudioContext() runs at
SampleRates == {44100, 48000}

\* connectAudio: the fields as they stand when the try block is left.
\* el = "used": the element already owns a source node, so that
\* createMediaElementSource throws InvalidStateError.
ConnectFields(el, failAt, rate) ==
    LET before == [audioContext |-> audioContext, sampleRate |-> sampleRate,
                   analyzerNode |-> analyzerNode, sourceNode |-> sourceNode,
                   elementUsed |-> elementUsed, ok |-> FALSE]
        s1 == [before EXCEPT !.audioContext = "running", !.sampleRate = rate]
        s2 == [s1 EXCEPT !.analyzerNode = "idle"]
        s3 == [s2 EXCEPT !.sourceNode = "node", !.elementUsed = TRUE]
        s4 == [s3 EXCEPT !.analyzerNode = "fed", !.ok = TRUE]
    IN  IF failAt = "context" THEN before
        ELSE IF failAt = "analyser" THEN s1
        ELSE IF failAt = "source" \/ el = "used" THEN s2
        ELSE IF failAt = "connect" THEN s3
        ELSE s4

ConnectAudio ==
    \E el \in {"new", "used"}, failAt \in FailSteps, rate \in SampleRates :
        /\ el = "used" => elementUsed
        /\ LET r == ConnectFields(el, failAt, rate)
           IN  /\ audioContext' = r.audioContext
               /\ sampleRate' = r.sampleRate
               /\ analyzerNode' = r.analyzerNode
               /\ sourceNode' = r.sourceNode
               /\ elementUsed' = r.elementUsed
               /\ op' = IF r.ok THEN "connectAudio" ELSE "connectFailed"
        /\ attached' = TRUE
        /\ failedConnect' = ~ConnectFields(el, failAt, rate).ok
        /\ ret' = NoRet
        /\ UNCHANGED <<fftSize, spectrumData, waveformData, destroyPending,
                       now, detectorVars, gpuVars>>

\* update(): the buffers after the call
UpdateZeroFills(node) == node = "null"

UpdatedBuffers(frame) ==
    IF UpdateZeroFills(analyzerNode)
    THEN [spectrum |-> Fill(Len(spectrumData), 0),
          waveform |-> Fill(Len(waveformData), 0)]
    ELSE IF analyzerNode = "idle" THEN SilenceFrame(fftSize)
    ELSE frame

AnalyzerUpdateFrom(frames) ==
    \E frame \in frames :
        /\ spectrumData' = UpdatedBuffers(frame).spectrum
        /\ waveformData' = UpdatedBuffers(frame).waveform
        /\ op' = "update"
        /\ ret' = NoRet
        /\ UNCHANGED <<fftSize, audioContext, sampleRate, analyzerNode,
                       sourceNode, destroyPending, elementUsed, attached,
                       failedConnect, now, detectorVars, gpuVars>>

AnalyzerUpdate == AnalyzerUpdateFrom(AllFrames(fftSize))

\* getFrequencyBin(frequency): floor(frequency / (sampleRate / fftSize)),
\* bounded above by the last bin; 0 without a context.  The quotient is
\* computed exactly (floor division rounds towards minus infinity, as
\* Math.floor does).
getFrequencyBin(frequency) ==
    IF audioContext = "null" THEN 0
    ELSE LET bin == (frequency * fftSize) \div sampleRate
         IN  Min(bin, Len(spectrumData) - 1)

\* input frequencies in Hz: negative, zero, in band, above Nyquist
Frequencies == {0 - 1, 0, 11025, 30000}

GetFrequencyBin ==
    \E frequency \in Frequencies :
        /\ ret' = [call |-> "getFrequencyBin",
                   value |-> [num |-> getFrequencyBin(frequency), den |-> 1]]
        /\ UNCHANGED <<analyzerVars, detectorVars, now, op, gpuVars>>

\* destroy(), up to `await this.audioContext.close()`
DestroyNodes_KeepAnalyzer == [sourceNode |-> "null", analyzerNode |-> analyzerNode]

DestroyNodes == [sourceNode |-> "null", analyzerNode |-> "null"]

AnalyzerDestroy ==
    /\ ~destroyPending
    /\ sourceNode' = DestroyNodes.sourceNode
    /\ analyzerNode' = DestroyNodes.analyzerNode
    /\ destroyPending' = (audioContext # "null")
    /\ attached' = FALSE
    /\ failedConnect' = FALSE
    /\ op' = "destroy"
    /\ ret' = NoRet
    /\ UNCHANGED <<fftSize, audioContext, sampleRate, spectrumData,
                   waveformData, elementUsed, now, detectorVars>>

DestroyBegin == AnalyzerDestroy /\ UNCHANGED gpuVars

\* destroy(), resumed after close() has settled
DestroyResume ==
    /\ destroyPending
    /\ audioContext' = "null"
    /\ sampleRate' = 0
    /\ destroyPending' = FALSE
    /\ op' = "destroyed"
    /\ ret' = NoRet
    /\ UNCHANGED <<fftSize, analyzerNode, sourceNode, spectrumData, waveformData,
                   elementUsed, attached, failedConnect, now, detectorVars, gpuVars>>

---------------------------------------------------------------------------
(* BeatDetector *)

\* config.varianceThreshold (fixed at construction)
varianceThreshold == [num |-> 1, den |-> 10]

\* the configuration defaults of the constructor
DefaultConfig == [threshold |-> [num |-> 13, den |-> 10], minimumInterval |-> 2]

\* field initialisers: a freshly constructed detector
FreshDetector == [energyHistory |-> <<>>, lastBeatTime |-> 0, isCurrentlyBeat |-> FALSE]

DetectorState ==
    [energyHistory |-> energyHistory, lastBeatTime |-> lastBeatTime,
     isCurrentlyBeat |-> isCurrentlyBeat]

\* values a caller passes to setBeatThreshold / setMinimumInterval
Thresholds == {[num |-> 1, den |-> 2], [num |-> 13, den |-> 10]}
MinimumIntervals == {1, 2}

\* push(energy), then shift() when the history is over capacity
PushEnergy_DropNewest(history, energy) ==
    LET pushed == Append(history, energy)
    IN  IF Len(pushed) > HistoryLen THEN SubSeq(pushed, 1, Len(pushed) - 1) ELSE pushed

PushEnergy(history, energy) ==
    LET pushed == Append(history, energy)
    IN  IF Len(pushed) > HistoryLen THEN Tail(pushed) ELSE pushed

\* update(): "need enough history to detect beats"
NeedMoreHistory_OffByOne(history) == Len(history) < HistoryLen - 1

NeedMoreHistory(history) == Len(history) < HistoryLen

\* reduce((sum, e) => sum + e, 0) / length, as a rational
averageEnergy(history) == [num |-> SeqSum(history), den |-> Len(history)]

RECURSIVE SquaredDiffs(_, _)
\* sum over values of (value - mean)^2, times mean.den^2
SquaredDiffs(values, mean) ==
    IF values = <<>> THEN 0
    ELSE (Head(values) * mean.den - mean.num) * (Head(values) * mean.den - mean.num)
            + SquaredDiffs(Tail(values), mean)

\* calculateVariance: the radicand avgSquaredDiff of the value returned
\* (the deviation is its square root), as a rational in units of 1/255^2
calculateVariance(values, mean) ==
    IF Len(values) = 0 THEN Zero
    ELSE [num |-> SquaredDiffs(values, mean), den |-> mean.den * mean.den * Len(values)]

\* variance > config.varianceThreshold, variance = sqrt(radicand) / 255
VarianceThresholdMet(radicand, vt) ==
    \/ vt.num < 0
    \/ radicand.num * vt.den * vt.den > vt.num * vt.num * EnergyOne * EnergyOne * radicand.den

\* energy > averageEnergy * config.threshold
EnergyThresholdMet(energy, avg, thr) ==
    energy * avg.den * thr.den > avg.num * thr.num

\* timeSinceLastBeat >= config.minimumInterval
EnoughTimeElapsed_Strict(currentTime, last, interval) == currentTime - last > interval

EnoughTimeElapsed(currentTime, last, interval) == currentTime - last >= interval

\* if (energyThresholdMet && varianceThresholdMet && enoughTimeElapsed)
BeatDecision_NoVarianceGate(energyMet, varianceMet, timeMet) == energyMet /\ timeMet

BeatDecision(energyMet, varianceMet, timeMet) == energyMet /\ varianceMet /\ timeMet

\* this.lastBeatTime after the decision
RecordBeatTime_Never(beat, currentTime, last) == last

RecordBeatTime(beat, currentTime, last) == IF beat THEN currentTime ELSE last

\* Math.max(0, (currentEnergy - averageEnergy) / averageEnergy)
StrengthRatio_Unclamped(currentEnergy, avg) ==
    [num |-> currentEnergy * avg.den - avg.num, den |-> avg.num]

StrengthRatio(currentEnergy, avg) ==
    IF currentEnergy * avg.den - avg.num <= 0 THEN Zero
    ELSE [num |-> currentEnergy * avg.den - avg.num, den |-> avg.num]

\* getBeatStrength(), with the analyzer's getEnergy() at the time of the call
getBeatStrength(history, currentEnergy) ==
    IF Len(history) < HistoryLen THEN Zero
    ELSE LET avg == averageEnergy(history)
         IN  IF avg.num = 0 THEN Zero ELSE StrengthRatio(currentEnergy, avg)

\* the observation window of the fed energies
Observe(window, energy) ==
    LET w == Append(window, energy)
    IN  IF Len(w) > HistoryLen + 1 THEN Tail(w) ELSE w

DetectorUpdate ==
    LET currentTime == now
        energy == getEnergy(spectrumData)
        history == PushEnergy(energyHistory, energy)
    IN  /\ energyHistory' = history
        /\ IF NeedMoreHistory(history)
           THEN /\ isCurrentlyBeat' = FALSE
                /\ lastBeatTime' = lastBeatTime
           ELSE LET avg == averageEnergy(history)
                    variance == calculateVariance(history, avg)
                    beat == BeatDecision(
                              EnergyThresholdMet(energy, avg, threshold),
                              VarianceThresholdMet(variance, varianceThreshold),
                              EnoughTimeElapsed(currentTime, lastBeatTime, minimumInterval))
                IN  /\ isCurrentlyBeat' = beat
                    /\ lastBeatTime' = RecordBeatTime(beat, currentTime, lastBeatTime)
        /\ samples' = Observe(samples, energy)
        /\ prevBeat' = IF isCurrentlyBeat' THEN now ELSE prevBeat
        /\ ret' = NoRet
        /\ UNCHANGED <<threshold, minimumInterval, now, op, analyzerVars, gpuVars>>

GetBeatStrength ==
    /\ ret' = [call |-> "getBeatStrength",
               value |-> getBeatStrength(energyHistory, getEnergy(spectrumData))]
    /\ UNCHANGED <<detectorVars, analyzerVars, now, op, gpuVars>>

\* the detector's configuration and fields
Detector ==
    [threshold |-> threshold, minimumInterval |-> minimumInterval,
     energyHistory |-> energyHistory, lastBeatTime |-> lastBeatTime,
     isCurrentlyBeat |-> isCurrentlyBeat]

\* setBeatThreshold(threshold)
setBeatThreshold(d, t) == [d EXCEPT !.threshold = t]

\* setMinimumInterval(interval)
setMinimumInterval_Rearm(d, interval) ==
    [d EXCEPT !.minimumInterval = interval, !.lastBeatTime = 0]

setMinimumInterval(d, interval) == [d EXCEPT !.minimumInterval = interval]

SetBeatThreshold ==
    \E t \in Thresholds :
        LET d == setBeatThreshold(Detector, t)
        IN  /\ threshold' = d.threshold
            /\ minimumInterval' = d.minimumInterval
            /\ energyHistory' = d.energyHistory
            /\ lastBeatTime' = d.lastBeatTime
            /\ isCurrentlyBeat' = d.isCurrentlyBeat
            /\ ret' = NoRet
            /\ UNCHANGED <<samples, prevBeat, analyzerVars, now, op, gpuVars>>

SetMinimumInterval ==
    \E i \in MinimumIntervals :
        LET d == setMinimumInterval(Detector, i)
        IN  /\ threshold' = d.threshold
            /\ minimumInterval' = d.minimumInterval
            /\ energyHistory' = d.energyHistory
            /\ lastBeatTime' = d.lastBeatTime
            /\ isCurrentlyBeat' = d.isCurrentlyBeat
            /\ prevBeat' = IF i = minimumInterval THEN prevBeat ELSE NoBeat
            /\ ret' = NoRet
            /\ UNCHANGED <<samples, analyzerVars, now, op, gpuVars>>

\* reset(): the fields it assigns
ResetFields_KeepTime ==
    [energyHistory |-> <<>>, lastBeatTime |-> lastBeatTime, isCurrentlyBeat |-> FALSE]

ResetFields == [energyHistory |-> <<>>, lastBeatTime |-> 0, isCurrentlyBeat |-> FALSE]

Reset ==
    /\ energyHistory' = ResetFields.energyHistory
    /\ lastBeatTime' = ResetFields.lastBeatTime
    /\ isCurrentlyBeat' = ResetFields.isCurrentlyBeat
    /\ samples' = <<>>
    /\ prevBeat' = NoBeat
    /\ ret' = [call |-> "reset", value |-> Zero]
    /\ UNCHANGED <<threshold, minimumInterval, analyzerVars, now, op, gpuVars>>

\* performance.now() advances
Tick ==
    /\ now < MaxTime
    /\ now' = now + 1
    /\ ret' = NoRet
    /\ UNCHANGED <<analyzerVars, detectorVars, op, gpuVars>>

\* the audio frames arriving while the detector runs
AnalyzerUpdateBeat == AnalyzerUpdateFrom(BeatFrames)

---------------------------------------------------------------------------
(* The WebGL context and PingPongFBO.  An operation is a function from the *)
(* GPU-side state (a record of the variables) to the state it leaves;      *)
(* glCalls collects the WebGL calls it issues.                             *)

FboHandles == {"fbo0", "fbo1"}
TexHandles == {"tex0", "tex1"}
\* FullscreenQuad: the vertex array object and the vertex buffer
QuadHandles == {"vao", "vbo"}
\* PresetRunner: the spectrum and the waveform texture
AudioTexHandles == {"spectrumTex", "audioTex"}
Handles == FboHandles \cup TexHandles \cup QuadHandles \cup AudioTexHandles

\* framebufferTexture2D in the constructor: fbos[i] renders into textures[i]
ColorAttachment == [fbo0 |-> "tex0", fbo1 |-> "tex1"]

Sizes == 1..MaxSize
\* texture units TEXTURE0 .. TEXTURE2
Units == 0..2
\* clear colours: (0, 0, 0, 1)
Colors == {"black"}
\* what a draw call writes
Pixels == {"frame"}

\* the uniforms PresetRunner sets on every frame, the samplers it binds,
\* and the one a preset declares (uniforms: {gain: ...})
BuiltInUniforms == {"u_time", "u_frame", "u_resolution", "u_energy", "u_bass",
                    "u_treble", "u_beat"}
SamplerUniforms == {"u_previousFrame", "u_spectrum", "u_waveform"}
UniformNames == BuiltInUniforms \cup SamplerUniforms \cup {"u_gain"}
\* the uniforms of the shader pairs a Program is constructed from on its own
SourceUniforms == {"u_frame", "u_gain"}
AttributeNames == {"a_position", "a_texCoord"}

NoGpuRet == [name |-> "none", has |-> FALSE, error |-> "none", info |-> "none"]
Unset == [type |-> "none", value |-> <<>>]
NoUniforms == [n \in {} |-> "null"]

Gpu ==
    [fbos |-> fbos, textures |-> textures, width |-> width, height |-> height,
     currentIndex |-> currentIndex,
     program |-> program, uniforms |-> uniforms, attributes |-> attributes,
     currentPreset |-> currentPreset, startTime |-> startTime,
     frameCount |-> frameCount, spectrumTexture |-> spectrumTexture,
     audioTexture |-> audioTexture, audioTexContent |-> audioTexContent,
     loadIndex |-> loadIndex,
     canvas |-> canvas, glShaders |-> glShaders, glPrograms |-> glPrograms,
     glProgramInUse |-> glProgramInUse, glUniformValue |-> glUniformValue,
     gpuRet |-> NoGpuRet,
     glFramebuffer |-> glFramebuffer, glViewport |-> glViewport,
     glClearColor |-> glClearColor, glActiveUnit |-> glActiveUnit,
     glUnits |-> glUnits, texContent |-> texContent, screen |-> screen,
     glDeleted |-> glDeleted, glCalls |-> <<>>, steps |-> <<>>,
     isRunning |-> isRunning, animationId |-> animationId,
     lastTime |-> lastTime, loopFrameCount |-> loopFrameCount,
     fpsCallback |-> fpsCallback, pending |-> pending]

Range(s) == {s[i] : i \in DOMAIN s}

Call(g, names) == [g EXCEPT !.glCalls = @ \o names]

Step(g, name) == [g EXCEPT !.steps = Append(@, name)]

\* array[i] (0-based); an index past the end reads undefined, which WebGL
\* takes as null
At(array, i) == IF i + 1 \in DOMAIN array THEN array[i + 1] ELSE "null"

bind_Previous(g) ==
    Call([g EXCEPT !.glFramebuffer = At(g.fbos, 1 - g.currentIndex),
                   !.glViewport = [width |-> g.width, height |-> g.height]],
         <<"bindFramebuffer", "viewport">>)

bind(g) ==
    Call([g EXCEPT !.glFramebuffer = At(g.fbos, g.currentIndex),
                   !.glViewport = [width |-> g.width, height |-> g.height]],
         <<"bindFramebuffer", "viewport">>)

unbind(g) == Call([g EXCEPT !.glFramebuffer = "null"], <<"bindFramebuffer">>)

SwapIndex_Stuck(i) == i

SwapIndex(i) == 1 - i

swap(g) == [g EXCEPT !.currentIndex = SwapIndex(@)]

getCurrentTexture(g) == At(g.textures, g.currentIndex)

getPreviousTexture(g) == At(g.textures, 1 - g.currentIndex)

bindTextureUnit(g, unit, texture) ==
    Call([g EXCEPT !.glActiveUnit = unit, !.glUnits[unit] = texture],
         <<"activeTexture", "bindTexture">>)

bindCurrentTexture(g, unit) == bindTextureUnit(g, unit, getCurrentTexture(g))

bindPreviousTexture(g, unit) == bindTextureUnit(g, unit, getPreviousTexture(g))

ResizeReturnsEarly_Never(g, w, h) == FALSE

ResizeReturnsEarly(g, w, h) == w = g.width /\ h = g.height

\* texImage2D(..., null) gives each texture a new, blank store
resize(g, w, h) ==
    IF ResizeReturnsEarly(g, w, h) THEN g
    ELSE Call([g EXCEPT !.width = w, !.height = h,
                        !.texContent = [t \in TexHandles |->
                            IF t \in Range(g.textures) THEN "blank" ELSE @[t]],
                        !.glUnits[g.glActiveUnit] = "null"],
              [i \in 1..(2 * Len(g.textures)) |->
                  IF i % 2 = 1 THEN "bindTexture" ELSE "texImage2D"]
                \o <<"bindTexture">>)

clear(g, color) ==
    Call([g EXCEPT !.texContent = [t \in TexHandles |->
                        IF \E f \in Range(g.fbos) : ColorAttachment[f] = t
                        THEN color ELSE @[t]],
                   !.glClearColor = IF g.fbos = <<>> THEN @ ELSE color,
                   !.glFramebuffer = "null"],
         [i \in 1..(3 * Len(g.fbos)) |->
             IF i % 3 = 1 THEN "bindFramebuffer"
             ELSE IF i % 3 = 2 THEN "clearColor" ELSE "clear"]
           \o <<"bindFramebuffer">>)

DestroyedArrays_Kept(g) == [fbos |-> g.fbos, textures |-> g.textures]

DestroyedArrays(g) == [fbos |-> <<>>, textures |-> <<>>]

\* deleting a bound object resets the binding; a deleted texture has no store
destroy(g) ==
    LET gone == Range(g.fbos) \cup Range(g.textures)
    IN  Call([g EXCEPT !.glDeleted = [x \in DOMAIN @ |->
                            IF x \in gone THEN @[x] + 1 ELSE @[x]],
                       !.glFramebuffer = IF @ \in gone THEN "null" ELSE @,
                       !.glUnits = [u \in Units |->
                            IF @[u] \in gone THEN "null" ELSE @[u]],
                       !.texContent = [t \in TexHandles |->
                            IF t \in gone THEN "freed" ELSE @[t]],
                       !.fbos = DestroyedArrays(g).fbos,
                       !.textures = DestroyedArrays(g).textures],
             [i \in 1..Len(g.fbos) |-> "deleteFramebuffer"]
               \o [i \in 1..Len(g.textures) |-> "deleteTexture"])

\* FullscreenQuad.render(): the draw lands in the colour attachment of the
\* bound framebuffer, or on the display when none is bound; with the vertex
\* array deleted nothing is rasterized
quadRender(g, pixel) ==
    Call(IF g.glDeleted["vao"] > 0 THEN g
         ELSE IF g.glFramebuffer = "null" THEN [g EXCEPT !.screen = pixel]
         ELSE [g EXCEPT !.texContent[ColorAttachment[g.glFramebuffer]] = pixel],
         <<"bindVertexArray", "drawArrays", "bindVertexArray">>)

\* the GPU-side variables after operation name has left the state g
Leaves(name, g) ==
    /\ fbos' = g.fbos
    /\ textures' = g.textures
    /\ width' = g.width
    /\ height' = g.height
    /\ currentIndex' = g.currentIndex
    /\ program' = g.program
    /\ uniforms' = g.uniforms
    /\ attributes' = g.attributes
    /\ currentPreset' = g.currentPreset
    /\ startTime' = g.startTime
    /\ frameCount' = g.frameCount
    /\ spectrumTexture' = g.spectrumTexture
    /\ audioTexture' = g.audioTexture
    /\ audioTexContent' = g.audioTexContent
    /\ loadIndex' = g.loadIndex
    /\ canvas' = g.canvas
    /\ glShaders' = g.glShaders
    /\ glPrograms' = g.glPrograms
    /\ glProgramInUse' = g.glProgramInUse
    /\ glUniformValue' = g.glUniformValue
    /\ gpuRet' = g.gpuRet
    /\ glFramebuffer' = g.glFramebuffer
    /\ glViewport' = g.glViewport
    /\ glClearColor' = g.glClearColor
    /\ glActiveUnit' = g.glActiveUnit
    /\ glUnits' = g.glUnits
    /\ texContent' = g.texContent
    /\ screen' = g.screen
    /\ glDeleted' = g.glDeleted
    /\ glCalls' = g.glCalls
    /\ steps' = g.steps
    /\ isRunning' = g.isRunning
    /\ animationId' = g.animationId
    /\ lastTime' = g.lastTime
    /\ loopFrameCount' = g.loopFrameCount
    /\ fpsCallback' = g.fpsCallback
    /\ pending' = g.pending
    /\ gpuOp' = name

FboBind == Leaves("bind", bind(Gpu)) /\ UNCHANGED audioVars

FboUnbind == Leaves("unbind", unbind(Gpu)) /\ UNCHANGED audioVars

FboSwap == Leaves("swap", swap(Gpu)) /\ UNCHANGED audioVars

\* bindCurrentTexture() / bindPreviousTexture() with the default unit
FboBindCurrentTexture ==
    Leaves("bindCurrentTexture", bindCurrentTexture(Gpu, 0)) /\ UNCHANGED audioVars

FboBindPreviousTexture ==
    Leaves("bindPreviousTexture", bindPreviousTexture(Gpu, 0)) /\ UNCHANGED audioVars

FboResize ==
    \E w \in Sizes, h \in Sizes :
        Leaves("resize", resize(Gpu, w, h)) /\ UNCHANGED audioVars

FboClear ==
    \E color \in Colors :
        Leaves("clear", clear(Gpu, color)) /\ UNCHANGED audioVars

FboDestroy == Leaves("destroy", destroy(Gpu)) /\ UNCHANGED audioVars

\* the owner draws into whatever is bound
QuadRender ==
    \E pixel \in Pixels :
        Leaves("draw", quadRender(Gpu, pixel)) /\ UNCHANGED audioVars

---------------------------------------------------------------------------
(* Program *)

\* where the construction of a Program from a shader pair fails:
\* gl.createShader returning null, a compile error, gl.createProgram
\* returning null (attachShader then throws a TypeError), a link error
CompileSteps == {"none", "vertexShader", "vertexCompile", "fragmentShader",
                 "fragmentCompile", "program", "link"}

\* a shader pair, by what the driver makes of it: the step that fails and,
\* for a pair that links, its active uniforms (located: those for which
\* getUniformLocation returns a location)
ShaderSources ==
    {s \in [failAt : {"none"}, active : SUBSET SourceUniforms,
            located : SUBSET SourceUniforms] : s.located \subseteq s.active}
    \cup {[failAt |-> f, active |-> {}, located |-> {}] :
            f \in CompileSteps \ {"none"}}

Throw(g, message, info) ==
    [g EXCEPT !.gpuRet.error = message, !.gpuRet.info = info]

Threw(g) == g.gpuRet.error # "none"

\* createShader(type, source); outcome: "ok" | "null" | "compile"
createShader(g, outcome, log) ==
    IF outcome = "null"
    THEN Throw(Call(g, <<"createShader">>), "Failed to create shader", "none")
    ELSE IF outcome = "compile"
    THEN Throw(Call(g, <<"createShader", "shaderSource", "compileShader",
                         "getShaderInfoLog", "deleteShader">>),
               "Shader compilation failed", log)
    ELSE Call([g EXCEPT !.glShaders = @ + 1],
              <<"createShader", "shaderSource", "compileShader">>)

ShaderOutcome(source, stage) ==
    IF source.failAt = stage \o "Shader" THEN "null"
    ELSE IF source.failAt = stage \o "Compile" THEN "compile"
    ELSE "ok"

createProgram(g, source) ==
    LET v == createShader(g, ShaderOutcome(source, "vertex"), "vertex log")
        f == createShader(v, ShaderOutcome(source, "fragment"), "fragment log")
    IN  IF Threw(v) THEN v
        ELSE IF Threw(f) THEN f
        ELSE IF source.failAt = "program"
        THEN Throw(Call(f, <<"createProgram", "attachShader">>),
                   "Failed to create shader program: TypeError", "none")
        ELSE IF source.failAt = "link"
        THEN Throw(Call(f, <<"createProgram", "attachShader", "attachShader",
                             "linkProgram", "getProgramInfoLog",
                             "deleteProgram">>),
                   "Failed to create shader program: Shader program linking failed",
                   "link log")
        ELSE Call([f EXCEPT !.glShaders = @ - 2, !.glPrograms = @ + 1,
                            !.program = "live",
                            !.glUniformValue = [n \in UniformNames |-> Unset]],
                  <<"createProgram", "attachShader", "attachShader",
                    "linkProgram", "deleteShader", "deleteShader">>)

\* getUniformLocation(program, name)
LocationOf(source, name) == IF name \in source.located THEN name ELSE "null"

StoresLocation_Always(location) == TRUE

StoresLocation(location) == location # "null"

discoverUniforms(g, source) ==
    [g EXCEPT !.uniforms =
        [n \in {a \in source.active : StoresLocation(LocationOf(source, a))} |->
            LocationOf(source, n)]]

discoverAttributes(g, source) == [g EXCEPT !.attributes = AttributeNames]

\* new Program(gl, vertexSource, fragmentSource): the instance, or the
\* error thrown and no instance
newProgram(g, source) ==
    LET fresh == [g EXCEPT !.program = "none", !.uniforms = NoUniforms,
                           !.attributes = {}]
        p == createProgram(fresh, source)
    IN  IF Threw(p) THEN p
        ELSE discoverAttributes(discoverUniforms(p, source), source)

\* useProgram of a deleted program is an error and changes nothing
use(g) ==
    Call([g EXCEPT !.glProgramInUse = IF g.program = "live" THEN "current" ELSE @],
         <<"useProgram">>)

\* the gl.uniform* call setUniform issues for a value, "warn" for a vector
\* of the wrong arity
UploadCall(uniform) ==
    CASE uniform.type = "float" -> "uniform1f"
      [] uniform.type = "int" -> "uniform1i"
      [] uniform.type = "vec2" ->
            IF Len(uniform.value) = 2 THEN "uniform2f" ELSE "warn"
      [] uniform.type = "vec3" ->
            IF Len(uniform.value) = 3 THEN "uniform3f" ELSE "warn"
      [] uniform.type = "vec4" ->
            IF Len(uniform.value) = 4 THEN "uniform4f" ELSE "warn"
      [] uniform.type = "mat3" -> "uniformMatrix3fv"
      [] uniform.type = "mat4" -> "uniformMatrix4fv"
      [] uniform.type = "sampler2D" -> "uniform1i"

\* a gl.uniform* call sets the uniform of the program in use
setUniform(g, name, uniform) ==
    LET location == IF name \in DOMAIN g.uniforms THEN g.uniforms[name]
                    ELSE "undefined"
    IN  IF location \in {"undefined", "null"} THEN g
        ELSE IF UploadCall(uniform) = "warn" THEN g
        ELSE Call([g EXCEPT !.glUniformValue[name] =
                        IF g.glProgramInUse = "current" THEN uniform ELSE @],
                  <<UploadCall(uniform)>>)

hasUniform(g, name) == name \in DOMAIN g.uniforms

\* Program.destroy()
programDestroy(g) ==
    Call([g EXCEPT !.glPrograms = IF g.program = "live" THEN @ - 1 ELSE @,
                   !.program = "deleted",
                   !.uniforms = NoUniforms,
                   !.attributes = {},
                   !.glProgramInUse = IF @ = "current" THEN "stale" ELSE @],
         <<"deleteProgram">>)

Asked(g, name) == [g EXCEPT !.gpuRet.name = name]

UniformValues ==
    {[type |-> "float", value |-> <<1>>],
     [type |-> "vec2", value |-> <<1, 2>>],
     [type |-> "vec2", value |-> <<1>>]}

\* new Program(...) by an owner that holds no live Program
ProgramNew ==
    \E source \in ShaderSources :
        /\ program # "live"
        /\ glShaders < MaxShaders
        /\ Leaves(IF Threw(newProgram(Gpu, source)) THEN "newProgramFailed"
                  ELSE "newProgram",
                  newProgram(Gpu, source))
        /\ UNCHANGED audioVars

ProgramUse ==
    /\ program # "none"
    /\ Leaves("use", use(Gpu))
    /\ UNCHANGED audioVars

ProgramSetUniform ==
    \E name \in SourceUniforms, uniform \in UniformValues :
        /\ program # "none"
        /\ Leaves("setUniform", setUniform(Asked(Gpu, name), name, uniform))
        /\ UNCHANGED audioVars

ProgramHasUniform ==
    \E name \in SourceUniforms :
        /\ program # "none"
        /\ Leaves("hasUniform",
                  [Asked(Gpu, name) EXCEPT !.gpuRet.has = hasUniform(Gpu, name)])
        /\ UNCHANGED audioVars

ProgramDestroy ==
    /\ program # "none"
    /\ Leaves("destroyProgram", programDestroy(Gpu))
    /\ UNCHANGED audioVars

---------------------------------------------------------------------------
(* PresetRunner *)

\* presets: a feedback preset with all three hooks and a declared uniform,
\* one without hooks that reads both audio textures and declares a uniform named
\* time, one whose fragment shader does not compile and one whose shaders
\* do not link
Presets ==
    {[name |-> "plasma",
      source |-> [failAt |-> "none",
                  active |-> {"u_frame", "u_gain", "u_previousFrame"},
                  located |-> {"u_frame", "u_gain", "u_previousFrame"}],
      uniforms |-> <<[name |-> "gain", type |-> "float", value |-> <<2>>]>>,
      init |-> TRUE, update |-> TRUE, destroy |-> TRUE],
     [name |-> "tunnel",
      source |-> [failAt |-> "none",
                  active |-> {"u_time", "u_spectrum", "u_waveform"},
                  located |-> {"u_time", "u_spectrum", "u_waveform"}],
      uniforms |-> <<[name |-> "time", type |-> "float", value |-> <<9>>]>>,
      init |-> FALSE, update |-> FALSE, destroy |-> FALSE],
     [name |-> "broken",
      source |-> [failAt |-> "fragmentCompile", active |-> {}, located |-> {}],
      uniforms |-> <<>>,
      init |-> FALSE, update |-> FALSE, destroy |-> FALSE],
     [name |-> "unlinked",
      source |-> [failAt |-> "link", active |-> {}, located |-> {}],
      uniforms |-> <<>>,
      init |-> TRUE, update |-> FALSE, destroy |-> FALSE]}

PresetNamed(name) == CHOOSE p \in Presets : p.name = name

\* what calling an optional hook does
HookOutcomes(present) == IF present THEN {"returns", "throws"} ELSE {"absent"}

\* the hooks of the preset the runner holds
CurrentHas(g, hook) ==
    /\ g.currentPreset # "null"
    /\ PresetNamed(g.currentPreset)[hook]

\* Visualizer.render(): the audio data handed to PresetRunner.render
AudioData ==
    [spectrum |-> spectrumData, waveform |-> waveformData,
     energy |-> getEnergy(spectrumData), beat |-> isCurrentlyBeat,
     bass |-> getBass(spectrumData), treble |-> getTreble(spectrumData)]

\* texImage2D into the spectrum and the waveform texture
updateAudioTextures_Stale(g, audioData) == g

updateAudioTextures(g, audioData) ==
    LET s == IF g.spectrumTexture # "null" /\ Len(audioData.spectrum) > 0
             THEN Call([g EXCEPT !.glUnits[g.glActiveUnit] = g.spectrumTexture,
                                 !.audioTexContent.spectrum = audioData.spectrum],
                       <<"bindTexture", "texImage2D">>)
             ELSE g
        w == IF s.audioTexture # "null" /\ Len(audioData.waveform) > 0
             THEN Call([s EXCEPT !.glUnits[s.glActiveUnit] = s.audioTexture,
                                 !.audioTexContent.waveform = audioData.waveform],
                       <<"bindTexture", "texImage2D">>)
             ELSE s
    IN  Call([w EXCEPT !.glUnits[w.glActiveUnit] = "null"], <<"bindTexture">>)

\* if (hasUniform(name)) setUniform(name, uniform), for each pair in turn
RECURSIVE SetEach(_, _)
SetEach(g, pairs) ==
    IF pairs = <<>> THEN g
    ELSE SetEach(IF hasUniform(g, Head(pairs).name)
                 THEN setUniform(g, Head(pairs).name, Head(pairs).uniform)
                 ELSE g,
                 Tail(pairs))

\* time is in clock units; energies are in units of 1/255
setCommonUniforms(g, audioData, time) ==
    SetEach(g,
      <<[name |-> "u_time", uniform |-> [type |-> "float", value |-> <<time>>]],
        [name |-> "u_frame",
         uniform |-> [type |-> "int", value |-> <<g.frameCount>>]],
        [name |-> "u_resolution",
         uniform |-> [type |-> "vec2",
                      value |-> <<g.canvas.width, g.canvas.height>>]],
        [name |-> "u_energy",
         uniform |-> [type |-> "float", value |-> <<audioData.energy>>]],
        [name |-> "u_bass",
         uniform |-> [type |-> "float", value |-> <<audioData.bass>>]],
        [name |-> "u_treble",
         uniform |-> [type |-> "float", value |-> <<audioData.treble>>]],
        [name |-> "u_beat",
         uniform |-> [type |-> "int",
                      value |-> <<IF audioData.beat THEN 1 ELSE 0>>]]>>)

setPresetUniforms(g) ==
    IF g.program = "none" \/ g.currentPreset = "null" THEN g
    ELSE LET declared == PresetNamed(g.currentPreset).uniforms
         IN  SetEach(g, [i \in DOMAIN declared |->
                            [name |-> "u_" \o declared[i].name,
                             uniform |-> [type |-> declared[i].type,
                                          value |-> declared[i].value]]])

BindSampler(g, name, unit, texture) ==
    setUniform(bindTextureUnit(g, unit, texture), name,
               [type |-> "sampler2D", value |-> <<unit>>])

bindTextures_Current(g) ==
    IF hasUniform(g, "u_previousFrame")
    THEN BindSampler(g, "u_previousFrame", 0, getCurrentTexture(g))
    ELSE g

bindTextures(g) ==
    LET p == IF hasUniform(g, "u_previousFrame")
             THEN BindSampler(g, "u_previousFrame", 0, getPreviousTexture(g))
             ELSE g
        s == IF p.spectrumTexture # "null" /\ hasUniform(p, "u_spectrum")
             THEN BindSampler(p, "u_spectrum", 1, p.spectrumTexture)
             ELSE p
    IN  IF s.audioTexture # "null" /\ hasUniform(s, "u_waveform")
        THEN BindSampler(s, "u_waveform", 2, s.audioTexture)
        ELSE s

\* the texture the program's feedback sampler reads: the one bound to the
\* unit the sampler uniform holds (0 until it is set)
Sampled(g) ==
    LET sampler == g.glUniformValue["u_previousFrame"]
    IN  g.glUnits[IF sampler.type = "none" THEN 0 ELSE sampler.value[1]]

\* the image a draw with the preset's program computes: the shader's
\* output, over the texture it samples when it reads the previous frame
Shaded(g) ==
    IF hasUniform(g, "u_previousFrame")
    THEN g.currentPreset \o " over " \o Sampled(g)
    ELSE g.currentPreset

\* the draw runs the program that is in use
copyToScreen(g) ==
    LET t == bindTextureUnit(
                 Call([g EXCEPT !.glFramebuffer = "null",
                                !.glViewport = [width |-> g.canvas.width,
                                                height |-> g.canvas.height]],
                      <<"bindFramebuffer", "viewport">>),
                 0, getCurrentTexture(g))
    IN  quadRender(t, Shaded(t))

\* gl.clear on whatever is bound
renderBlank(g) ==
    Call(IF g.glFramebuffer = "null"
         THEN [g EXCEPT !.glClearColor = "black", !.screen = "black"]
         ELSE [g EXCEPT !.glClearColor = "black",
                        !.texContent[ColorAttachment[g.glFramebuffer]] = "black"],
         <<"clearColor", "clear">>)

FrameCounted(g) == [g EXCEPT !.frameCount = @ + 1]

\* if (!this.currentProgram || !this.currentPreset)
IsIdle(g) == g.program = "none" \/ g.currentPreset = "null"

\* render(), lines 125-130: the audio textures and the update hook;
\* updated: what the hook did
renderUpdate(g, audioData, updated) ==
    LET a == Step(updateAudioTextures(g, audioData), "audio textures")
    IN  IF updated = "absent" THEN a ELSE Step(a, "update hook")

\* render(), lines 133-145: the state the feedback-target draw runs in
renderSetup(g, audioData, time) ==
    LET b == Step(use(Step(bind(g), "bind")), "use")
        u == Step(setPresetUniforms(
                     Step(setCommonUniforms(b, audioData, time),
                          "common uniforms")),
                  "preset uniforms")
    IN  Step(bindTextures(u), "bind textures")

\* render(audioData)
render(g, audioData, time, updated) ==
    IF IsIdle(g) THEN renderBlank(g)
    ELSE LET h == renderUpdate(g, audioData, updated)
             t == renderSetup(h, audioData, time)
             d == Step(quadRender(t, Shaded(t)), "draw")
             c == Step(copyToScreen(Step(unbind(d), "unbind")), "composite")
         IN  IF updated = "throws" THEN Throw(h, "update hook", "none")
             ELSE Step(FrameCounted(Step(swap(c), "swap")), "frame count")

\* if (this.currentProgram) { this.currentProgram.destroy(); ... = null }
releaseProgram_Forget(g) == [g EXCEPT !.program = "none"]

releaseProgram(g) ==
    IF g.program = "none" THEN g
    ELSE Step([programDestroy(g) EXCEPT !.program = "none"], "release program")

\* catch (error) { console.error(...); this.currentPreset = null }
Caught_Rethrown(g) == g

Caught(g) == [g EXCEPT !.currentPreset = "null", !.gpuRet = NoGpuRet]

\* loadPreset(preset); destroyed / initialized: what the outgoing preset's
\* destroy hook and the incoming preset's init hook did
loadPreset(g, preset, destroyed, initialized, time) ==
    LET hooked == IF destroyed = "absent" THEN g ELSE Step(g, "destroy hook")
        taken == [releaseProgram(hooked) EXCEPT !.currentPreset = preset.name]
        built == newProgram(Step(taken, "new program"), preset.source)
        inited == IF initialized = "absent" THEN built
                  ELSE Step(built, "init hook")
    IN  IF destroyed = "throws" THEN Throw(hooked, "destroy hook", "none")
        ELSE IF Threw(built) THEN Caught(built)
        ELSE IF initialized = "throws" THEN Caught(inited)
        ELSE Step([inited EXCEPT !.startTime = time, !.frameCount = 0,
                                 !.loadIndex = built.currentIndex],
                  "reset timing")

quadDestroy(g) ==
    Call([g EXCEPT !.glDeleted = [x \in DOMAIN @ |->
                        IF x \in QuadHandles THEN @[x] + 1 ELSE @[x]]],
         <<"deleteVertexArray", "deleteBuffer">>)

deleteAudioTextures(g) ==
    LET held == {g.audioTexture, g.spectrumTexture} \ {"null"}
    IN  Call([g EXCEPT !.glDeleted = [x \in DOMAIN @ |->
                            IF x \in held THEN @[x] + 1 ELSE @[x]],
                       !.glUnits = [u \in Units |->
                            IF @[u] \in held THEN "null" ELSE @[u]]],
             [i \in 1..Cardinality(held) |-> "deleteTexture"])

\* PresetRunner.destroy()
runnerDestroy(g, destroyed) ==
    LET hooked == IF destroyed = "absent" THEN g ELSE Step(g, "destroy hook")
        p == IF g.program # "none"
             THEN Step(programDestroy(hooked), "release program")
             ELSE hooked
    IN  IF destroyed = "throws" THEN Throw(hooked, "destroy hook", "none")
        ELSE Step(deleteAudioTextures(
                      Step(destroy(Step(quadDestroy(p), "quad")), "surface")),
                  "audio textures")

RunnerLoadPreset ==
    \E preset \in Presets, destroyed \in HookOutcomes(CurrentHas(Gpu, "destroy")) :
      \E initialized \in HookOutcomes(preset.init) :
        /\ glShaders < MaxShaders
        /\ LET g == loadPreset(Gpu, preset, destroyed, initialized, now)
           IN  Leaves(IF Threw(g) THEN "loadPresetThrew"
                      ELSE IF g.currentPreset = "null" THEN "loadPresetFailed"
                      ELSE "loadPreset",
                      g)
        /\ UNCHANGED audioVars

RunnerRender ==
    \E updated \in HookOutcomes(CurrentHas(Gpu, "update")) :
        /\ frameCount < MaxFrames
        /\ LET g == render(Gpu, AudioData, now - startTime, updated)
           IN  Leaves(IF Threw(g) THEN "renderThrew"
                      ELSE IF program = "none" \/ currentPreset = "null"
                      THEN "renderBlank"
                      ELSE "render",
                      g)
        /\ UNCHANGED audioVars

\* resize(width, height), to the smallest and the largest size
RunnerResize ==
    \E w \in {1, MaxSize}, h \in {1, MaxSize} :
        Leaves("resize", resize(Gpu, w, h)) /\ UNCHANGED audioVars

RunnerDestroy ==
    \E destroyed \in HookOutcomes(CurrentHas(Gpu, "destroy")) :
        /\ \A x \in Handles : glDeleted[x] < 2
        /\ LET g == runnerDestroy(Gpu, destroyed)
           IN  Leaves(IF Threw(g) THEN "destroyThrew" ELSE "destroyRunner", g)
        /\ UNCHANGED audioVars

---------------------------------------------------------------------------
(* RenderLoop *)

\* animationId: number | null = null
NoFrame == 0

\* this.animationId = requestAnimationFrame(this.tick): the browser hands out
\* an id no request holds and queues the request behind the ones it holds
requestAnimationFrame(g) ==
    LET held == Range(g.pending) \cup {g.animationId}
        id == 1 + CHOOSE m \in held : \A x \in held : x <= m
    IN  Step([g EXCEPT !.animationId = id, !.pending = Append(@, id)],
             "requestAnimationFrame")

\* stop(): cancelAnimationFrame empties the slot of the request if the
\* browser still holds it
stop(g) ==
    IF g.animationId = NoFrame THEN [g EXCEPT !.isRunning = FALSE]
    ELSE Step([g EXCEPT !.isRunning = FALSE,
                        !.pending = [i \in DOMAIN @ |->
                                        IF @[i] = g.animationId THEN NoFrame
                                        ELSE @[i]],
                        !.animationId = NoFrame],
              "cancelAnimationFrame")

\* what the render callback does: it returns, it throws, or it calls the
\* loop's own stop(), or stop() and then start(), before it returns
CallbackOutcomes == {"returns", "throws", "stops", "restarts"}

RECURSIVE tick(_, _, _, _)

\* start(): the first tick runs at once, before any time has passed
start(g, called) ==
    IF g.isRunning THEN g
    ELSE tick([g EXCEPT !.isRunning = TRUE, !.lastTime = now,
                        !.loopFrameCount = 0],
              FALSE, "absent", called)

\* this.callback(); the callback that runs inside a start() it made itself
\* returns
callback(g, called) ==
    LET ran == Step(g, "callback")
    IN  CASE called = "stops" -> stop(Step(ran, "stop in callback"))
          [] called = "restarts" ->
                 start(stop(Step(ran, "restart in callback")), "returns")
          [] called = "throws" -> Step(ran, "console.error")
          [] OTHER -> ran

\* tick(); elapsed: deltaTime >= 1000; observed / called: what the FPS
\* observer and the render callback did
tick(g, elapsed, observed, called) ==
    LET counted == [g EXCEPT !.loopFrameCount = @ + 1]
        reported == IF elapsed
                    THEN [counted EXCEPT !.loopFrameCount = 0, !.lastTime = now]
                    ELSE counted
        told == IF elapsed /\ g.fpsCallback THEN Step(reported, "fpsCallback")
                ELSE reported
    IN  IF ~g.isRunning THEN g
        ELSE IF elapsed /\ g.fpsCallback /\ observed = "throws"
        THEN Throw(told, "fpsCallback", "none")
        ELSE requestAnimationFrame(callback(told, called))

\* The browser's request ids are opaque: after an operation the requests it
\* still holds are numbered in the order they were made
Settle(g) ==
    LET live == SelectSeq(g.pending, LAMBDA id : id # NoFrame)
        Slot(id) == {i \in DOMAIN live : live[i] = id}
    IN  [g EXCEPT !.pending = [i \in DOMAIN live |-> i],
                  !.animationId = IF @ = NoFrame THEN NoFrame
                                  ELSE IF Slot(@) = {} THEN Len(live) + 1
                                  ELSE CHOOSE i \in Slot(@) : TRUE]

\* a display refresh: the browser runs the requests it held when the refresh
\* began, in the order they were made, and skips the cancelled ones; an
\* exception out of one of them is reported and the next one runs. The second
\* is counted as elapsed by the first tick only, which resets lastTime
RECURSIVE runFrame(_, _, _, _, _)
runFrame(g, i, elapsed, observed, outcomes) ==
    IF i > Len(outcomes) THEN g
    ELSE LET fired == Step([g EXCEPT !.pending[i] = NoFrame], "frame")
             next == IF g.pending[i] = NoFrame THEN g
                     ELSE tick(fired, elapsed /\ i = 1, observed, outcomes[i])
         IN  runFrame(next, i + 1, elapsed, observed, outcomes)

LoopStart ==
    \E called \in CallbackOutcomes :
        /\ isRunning \/ Len(pending) < MaxPending
        /\ Leaves("start", Settle(start(Gpu, called)))
        /\ UNCHANGED audioVars

LoopStop == Leaves("stop", Settle(stop(Gpu))) /\ UNCHANGED audioVars

LoopSetFPSCallback ==
    Leaves("setFPSCallback", [Gpu EXCEPT !.fpsCallback = TRUE])
        /\ UNCHANGED audioVars

LoopRefresh ==
    \E elapsed \in BOOLEAN, outcomes \in [DOMAIN pending -> CallbackOutcomes] :
      \E observed \in HookOutcomes(elapsed /\ fpsCallback) :
        /\ pending # <<>>
        /\ loopFrameCount + 1 >= MaxTicks => elapsed
        /\ LET g == Settle(runFrame(Gpu, 1, elapsed, observed, outcomes))
           IN  /\ Len(g.pending) <= MaxPending
               /\ Leaves(IF Threw(g) THEN "tickThrew" ELSE "tick", g)
        /\ UNCHANGED audioVars

---------------------------------------------------------------------------
(* Visualizer *)

\* Visualizer.destroy(): the loop is stopped, the analyzer is destroyed and
\* the context wrapper is dropped; the preset runner is not told
VisualizerDestroy ==
    /\ AnalyzerDestroy
    /\ Leaves("destroyVisualizer", Settle(stop(Gpu)))

\* Visualizer.resize(width, height): the canvas takes the size and
\* GLContext.resize sets the viewport to it; the preset runner is not told
VisualizerResize ==
    \E w \in {1, MaxSize}, h \in {1, MaxSize} :
        /\ Leaves("resizeVisualizer",
                  Call([Gpu EXCEPT !.canvas = [width |-> w, height |-> h],
                                   !.glViewport = [width |-> w, height |-> h]],
                       <<"viewport">>))
        /\ UNCHANGED audioVars

---------------------------------------------------------------------------
(* Specifications *)

InitDetector ==
    /\ threshold = DefaultConfig.threshold
    /\ minimumInterval = DefaultConfig.minimumInterval
    /\ energyHistory = FreshDetector.energyHistory
    /\ lastBeatTime = FreshDetector.lastBeatTime
    /\ isCurrentlyBeat = FreshDetector.isCurrentlyBeat
    /\ samples = <<>>
    /\ prevBeat = NoBeat
    /\ now = 0
    /\ op = "init"
    /\ ret = NoRet

\* new AudioAnalyzer(fftSize): nothing connected, zeroed buffers
InitAnalyzer ==
    /\ audioContext = "null"
    /\ sampleRate = 0
    /\ analyzerNode = "null"
    /\ sourceNode = "null"
    /\ spectrumData = Fill(fftSize \div 2, 0)
    /\ waveformData = Fill(fftSize, 0)
    /\ destroyPending = FALSE
    /\ elementUsed = FALSE
    /\ attached = FALSE
    /\ failedConnect = FALSE

\* GLContext.setupInitialState on a canvas of the given size
InitContext(w, h) ==
    /\ canvas = [width |-> w, height |-> h]
    /\ glShaders = 0
    /\ glPrograms = 0
    /\ glProgramInUse = "null"
    /\ glUniformValue = [n \in UniformNames |-> Unset]
    /\ glFramebuffer = "null"
    /\ glViewport = [width |-> w, height |-> h]
    /\ glClearColor = "black"
    /\ glActiveUnit = 0
    /\ glUnits = [u \in Units |-> "null"]
    /\ screen = "blank"
    /\ glDeleted = [x \in Handles |-> 0]

\* new PingPongFBO(gl, {width: canvas.width, height: canvas.height})
InitFbo ==
    /\ fbos = <<"fbo0", "fbo1">>
    /\ textures = <<"tex0", "tex1">>
    /\ width = canvas.width
    /\ height = canvas.height
    /\ currentIndex = 0
    /\ texContent = [t \in TexHandles |-> "blank"]

\* no Program has been constructed
InitNoProgram ==
    /\ program = "none"
    /\ uniforms = NoUniforms
    /\ attributes = {}

\* new PresetRunner(glContext), past the FullscreenQuad and the PingPongFBO
InitRunner ==
    /\ currentPreset = "null"
    /\ startTime = now
    /\ frameCount = 0
    /\ spectrumTexture = "spectrumTex"
    /\ audioTexture = "audioTex"
    /\ audioTexContent = [spectrum |-> <<>>, waveform |-> <<>>]
    /\ loadIndex = 0

\* new RenderLoop(callback)
InitLoop ==
    /\ isRunning = FALSE
    /\ animationId = NoFrame
    /\ lastTime = 0
    /\ loopFrameCount = 0
    /\ fpsCallback = FALSE
    /\ pending = <<>>

\* the GPU side as the Visualizer constructor leaves it
InitGpu(w, h) ==
    /\ InitContext(w, h)
    /\ InitLoop
    /\ InitFbo
    /\ InitNoProgram
    /\ InitRunner
    /\ gpuOp = "init"
    /\ glCalls = <<>>
    /\ steps = <<>>
    /\ gpuRet = NoGpuRet

\* the analyzer alone, for every buffer size
InitAudio ==
    /\ fftSize \in {2 * n : n \in 1..MaxBins}
    /\ InitAnalyzer
    /\ InitDetector
    /\ InitGpu(1, 1)

NextAudio ==
    \/ ConnectAudio
    \/ AnalyzerUpdate
    \/ GetFrequencyBin
    \/ DestroyBegin
    \/ DestroyResume

SpecAudio == InitAudio /\ [][NextAudio]_vars

\* the detector on an analyzer that connectAudio has connected
InitBeat ==
    /\ fftSize = 4
    /\ audioContext = "running"
    /\ sampleRate = 44100
    /\ analyzerNode = "fed"
    /\ sourceNode = "node"
    /\ spectrumData = Fill(fftSize \div 2, 0)
    /\ waveformData = Fill(fftSize, 0)
    /\ destroyPending = FALSE
    /\ elementUsed = TRUE
    /\ attached = TRUE
    /\ failedConnect = FALSE
    /\ InitDetector
    /\ InitGpu(1, 1)

NextBeat ==
    \/ Tick
    \/ AnalyzerUpdateBeat
    \/ DetectorUpdate
    \/ GetBeatStrength
    \/ SetBeatThreshold
    \/ SetMinimumInterval
    \/ Reset

SpecBeat == InitBeat /\ [][NextBeat]_vars

\* a PingPongFBO and the calls its owner can make on it
InitFboAlone ==
    /\ fftSize = 2
    /\ InitAnalyzer
    /\ InitDetector
    /\ \E w \in Sizes, h \in Sizes : InitGpu(w, h)

NextFbo ==
    \/ FboBind
    \/ FboUnbind
    \/ FboSwap
    \/ FboBindCurrentTexture
    \/ FboBindPreviousTexture
    \/ FboResize
    \/ FboClear
    \/ FboDestroy
    \/ QuadRender

SpecFbo == InitFboAlone /\ [][NextFbo]_vars

\* a Program slot and the calls its owner can make on it
InitProgramAlone ==
    /\ fftSize = 2
    /\ InitAnalyzer
    /\ InitDetector
    /\ InitGpu(1, 1)

NextProgram ==
    \/ ProgramNew
    \/ ProgramUse
    \/ ProgramSetUniform
    \/ ProgramHasUniform
    \/ ProgramDestroy

SpecProgram == InitProgramAlone /\ [][NextProgram]_vars

\* the PresetRunner of a Visualizer whose analyzer is not connected
InitRunnerAlone ==
    /\ fftSize = 2
    /\ InitAnalyzer
    /\ InitDetector
    /\ InitGpu(1, 1)

NextRunner ==
    \/ RunnerLoadPreset
    \/ RunnerRender
    \/ RunnerResize
    \/ RunnerDestroy

SpecRunner == InitRunnerAlone /\ [][NextRunner]_vars

\* the PresetRunner rendering the frames of the connected analyzer
NextFrames ==
    \/ AnalyzerUpdateBeat
    \/ RunnerLoadPreset
    \/ RunnerRender

\* a RenderLoop and the calls its owner and the browser make on it
NextLoop ==
    \/ LoopStart
    \/ LoopStop
    \/ LoopSetFPSCallback
    \/ LoopRefresh
    \/ Tick

SpecLoop == InitRunnerAlone /\ [][NextLoop]_vars

\* A Visualizer with its preset runner: presets are loaded and replaced,
\* frames are rendered, and either of them is shut down
NextVisualizer ==
    \/ RunnerLoadPreset
    \/ RunnerRender
    \/ RunnerDestroy
    \/ VisualizerDestroy

SpecVisualizer == InitRunnerAlone /\ [][NextVisualizer]_vars

\* A Visualizer and its preset runner, each resized through its own resize()
\* while presets are loaded and frames are rendered
NextResize ==
    \/ RunnerLoadPreset
    \/ RunnerRender
    \/ RunnerResize
    \/ VisualizerResize

SpecResize == InitRunnerAlone /\ [][NextResize]_vars

SpecFrames == InitBeat /\ [][NextFrames]_vars

---------------------------------------------------------------------------
(* The claims' vocabulary, stated on the observed inputs: the history of   *)
(* a claim is the last min(k, N) energies fed to update().                 *)

ClaimHistoryOf(fed) ==
    SubSeq(fed, Len(fed) - Min(Len(fed), HistoryLen) + 1, Len(fed))

ClaimHistory == ClaimHistoryOf(samples)

ClaimFull(fed) == Len(fed) >= HistoryLen

\* energy > mean(h) * threshold, energy being the newest sample
ClaimEnergyGate(h, thr) == Last(h) * Len(h) * thr.den > SeqSum(h) * thr.num

\* sqrt(mean(h^2) - mean(h)^2) > varianceThreshold (a non-negative threshold)
ClaimVarianceGate(h) ==
    (Len(h) * SumSqRange(h, 1, Len(h)) - SeqSum(h) * SeqSum(h))
            * varianceThreshold.den * varianceThreshold.den
        > varianceThreshold.num * varianceThreshold.num
            * EnergyOne * EnergyOne * Len(h) * Len(h)

IsFlat(h) == \A i \in 1..Len(h) : h[i] = h[1]

RatEq(a, b) == a.num * b.den = b.num * a.den

CurrentEnergy == getEnergy(spectrumData)

CurrentStrength == getBeatStrength(energyHistory, CurrentEnergy)

\* C1: while fewer than N energy samples have been recorded since
\* construction or reset(), isBeat() is false and getBeatStrength() is 0.
C1_NoBeatBeforeFull ==
    Len(samples) < HistoryLen =>
        /\ ~isCurrentlyBeat
        /\ CurrentStrength = Zero
        /\ ret.call = "getBeatStrength" => ret.value = Zero

\* N-1 samples with a jump from silence to full energy, the debounce
\* interval elapsed, and getBeatStrength() just called
C1_Witness ==
    /\ Len(samples) = HistoryLen - 1
    /\ Head(samples) = 0
    /\ Last(samples) = EnergyOne
    /\ now - lastBeatTime >= minimumInterval
    /\ ret.call = "getBeatStrength"

\* C2: an update() that leaves the history full reports a beat iff the
\* energy gate, the variance gate and the debounce gate all hold; the
\* previous isBeat() value plays no part.
C2_BeatIffAllGates ==
    [][(DetectorUpdate /\ ClaimFull(samples')) =>
          (isCurrentlyBeat' <=>
              /\ ClaimEnergyGate(ClaimHistoryOf(samples'), threshold)
              /\ ClaimVarianceGate(ClaimHistoryOf(samples'))
              /\ now - lastBeatTime >= minimumInterval)]_vars

\* a no-beat tick after a tick that reported a beat: the history is full
\* and varied enough, the energy gate fails
C2_Witness ==
    /\ ClaimFull(samples)
    /\ ~isCurrentlyBeat
    /\ prevBeat # NoBeat
    /\ lastBeatTime = prevBeat
    /\ ~ClaimEnergyGate(ClaimHistory, threshold)
    /\ ClaimVarianceGate(ClaimHistory)

\* C3: with minimumInterval unchanged, an update() that reports a beat is
\* at least minimumInterval after the previous one that did (since
\* construction or reset()), and lastBeatTime is recorded on beat ticks
\* only.
C3_Debounce ==
    [][DetectorUpdate =>
          /\ (isCurrentlyBeat' /\ prevBeat # NoBeat) => now - prevBeat >= minimumInterval
          /\ lastBeatTime' = IF isCurrentlyBeat' THEN now ELSE lastBeatTime]_vars

\* a second candidate (energy and variance gates met) suppressed by the debounce
C3_Witness ==
    /\ ClaimFull(samples)
    /\ ClaimEnergyGate(ClaimHistory, threshold)
    /\ ClaimVarianceGate(ClaimHistory)
    /\ prevBeat # NoBeat
    /\ now - prevBeat < minimumInterval
    /\ ~isCurrentlyBeat
    /\ lastBeatTime = prevBeat

\* C4: with a full history whose deviation is not above varianceThreshold
\* (a flat history in particular), isBeat() is false.
C4_VarianceGateBlocks ==
    ClaimFull(samples) =>
        /\ ~ClaimVarianceGate(ClaimHistory) => ~isCurrentlyBeat
        /\ IsFlat(ClaimHistory) => ~isCurrentlyBeat

\* a non-flat history under the gate, the energy gate met (threshold 0.5)
\* and the debounce interval elapsed
C4_Witness ==
    /\ ClaimFull(samples)
    /\ ~IsFlat(ClaimHistory)
    /\ ~ClaimVarianceGate(ClaimHistory)
    /\ ClaimEnergyGate(ClaimHistory, threshold)
    /\ now - lastBeatTime >= minimumInterval
    /\ ~isCurrentlyBeat

\* C5: the history holds the most recent min(k, N) samples in arrival
\* order, and only update() and reset() change it.
C5_HistoryIsFifoWindow ==
    /\ [](energyHistory = ClaimHistory /\ Len(energyHistory) <= HistoryLen)
    /\ [][energyHistory' # energyHistory => (DetectorUpdate \/ Reset)]_vars

\* an eviction: N+1 samples fed, the oldest differing from its successor
C5_Witness ==
    /\ Len(samples) = HistoryLen + 1
    /\ samples[1] # samples[2]
    /\ samples[HistoryLen] # samples[HistoryLen + 1]
    /\ energyHistory = Tail(samples)

\* max(0, (energy - average) / average), 0 when the average is 0
ClaimStrength(energy, h) ==
    IF SeqSum(h) = 0 \/ energy * Len(h) <= SeqSum(h) THEN Zero
    ELSE [num |-> energy * Len(h) - SeqSum(h), den |-> SeqSum(h)]

C7_ResetIsFresh ==
    /\ [][Reset =>
            /\ DetectorState' = FreshDetector
            /\ getBeatStrength(energyHistory', getEnergy(spectrumData')) = Zero
            /\ UNCHANGED <<threshold, minimumInterval>>]_vars
    /\ []((ret.call = "reset") => (DetectorState = FreshDetector /\ samples = <<>>))
    /\ [](Len(energyHistory) < HistoryLen => ~isCurrentlyBeat)

\* reset() at a time when a fresh detector could beat at once
C7_Witness ==
    /\ ret.call = "reset"
    /\ now >= minimumInterval
    /\ CurrentEnergy = EnergyOne

AllBins(spectrum, v) == \A i \in 1..Len(spectrum) : spectrum[i] = v

BuffersZeroed ==
    /\ AllBins(spectrumData, 0)
    /\ AllBins(waveformData, 0)
    /\ getEnergy(spectrumData) = 0
    /\ getBass(spectrumData) = 0
    /\ getTreble(spectrumData) = 0

\* C8: with no connectAudio since construction or destroy(), every
\* update() zero-fills both buffers, so energy, bass and treble are 0.
C8_UpdateZeroFillsWhenDisconnected ==
    (op = "update" /\ ~attached) => (analyzerNode = "null" /\ BuffersZeroed)

\* update() after a connected analyzer was destroyed and its context closed
C8_Witness ==
    /\ op = "update"
    /\ ~attached
    /\ elementUsed
    /\ audioContext = "null"
    /\ ~destroyPending

\* C9 as stated: after a failed connectAudio no analyser node, source node
\* or audio context is retained, and every following update() zero-fills
\* the buffers.
C9_FailedConnectRetainsNothing ==
    failedConnect =>
        /\ audioContext = "null"
        /\ analyzerNode = "null"
        /\ sourceNode = "null"
        /\ op = "update" => BuffersZeroed

\* C10: getEnergy() is exactly 0 on an all-zero spectrum, exactly 1 on an
\* all-255 spectrum, and within [0, 1] on every spectrum, for every
\* spectrum length >= 1.
C10_EnergyRange ==
    Len(spectrumData) >= 1 =>
        /\ AllBins(spectrumData, 0) => getEnergy(spectrumData) = 0
        /\ AllBins(spectrumData, 255) => getEnergy(spectrumData) = EnergyOne
        /\ getEnergy(spectrumData) >= 0
        /\ getEnergy(spectrumData) <= EnergyOne
        /\ (getEnergy(spectrumData) = EnergyOne) <=> AllBins(spectrumData, 255)
        /\ (getEnergy(spectrumData) = 0 /\ ~AllBins(spectrumData, 0)) =>
              SumSqRange(spectrumData, 1, Len(spectrumData)) < Len(spectrumData)

\* an all-255 spectrum of the largest size delivered by a connected source
C10_Witness ==
    /\ op = "update"
    /\ analyzerNode = "fed"
    /\ Len(spectrumData) = MaxBins
    /\ AllBins(spectrumData, 255)
    /\ getEnergy(spectrumData) = EnergyOne

\* the bins (1-based) that getBass() and getTreble() read
BassBins(spectrum) == 2..Min(12, Len(spectrum))

TrebleBins(spectrum) == ((Len(spectrum) * 3) \div 4 + 1)..Len(spectrum)

RangeIs(spectrum, bins, v) == \A i \in bins : spectrum[i] = v

\* C11 as stated: getBass() and getTreble() are the RMS over the bins they
\* read (the sum of squares divided by the number of bins read), so each is
\* exactly 1 when every bin of its sub-range is 255 and exactly 0 when
\* every bin is 0, for every spectrum length >= 1 (a sub-range with no bin
\* in it is left out of the all-255 case).
C11_SubRangeRms ==
    Len(spectrumData) >= 1 =>
        /\ (BassBins(spectrumData) # {}
               /\ RangeIs(spectrumData, BassBins(spectrumData), 255)) =>
              getBass(spectrumData) = EnergyOne
        /\ RangeIs(spectrumData, BassBins(spectrumData), 0) =>
              getBass(spectrumData) = 0
        /\ RangeIs(spectrumData, TrebleBins(spectrumData), 255) =>
              getTreble(spectrumData) = EnergyOne
        /\ RangeIs(spectrumData, TrebleBins(spectrumData), 0) =>
              getTreble(spectrumData) = 0

\* C12 as stated: getFrequencyBin returns an index within
\* [0, spectrumLength - 1] for every input frequency (negative and above
\* Nyquist included), connected or not.
C12_BinInRange ==
    ret.call = "getFrequencyBin" =>
        /\ ret.value.num >= 0
        /\ ret.value.num <= Len(spectrumData) - 1

\* the PingPongFBO has not been destroyed
Live == fbos # <<>>

\* the state an operation leaves, without the record of its WebGL calls
Effect(g) == [g EXCEPT !.glCalls = <<>>]

\* C15: swap() is an involution: a single swap() exchanges the current and
\* the previous texture and creates, deletes and re-allocates nothing (it
\* issues no WebGL call and leaves every GPU object as it was), and two
\* swaps in a row return both textures to their original identities.
C15_SwapInvolution ==
    /\ [][gpuOp' = "swap" =>
            /\ getCurrentTexture(Gpu)' = getPreviousTexture(Gpu)
            /\ getPreviousTexture(Gpu)' = getCurrentTexture(Gpu)
            /\ glCalls' = <<>>
            /\ UNCHANGED <<fbos, textures, width, height, glVars>>]_vars
    /\ [](/\ getCurrentTexture(swap(swap(Gpu))) = getCurrentTexture(Gpu)
          /\ getPreviousTexture(swap(swap(Gpu))) = getPreviousTexture(Gpu)
          /\ swap(swap(Gpu)) = Gpu)

\* a swap back to index 0 on a live surface holding a drawn frame
C15_Witness ==
    /\ gpuOp = "swap"
    /\ Live
    /\ currentIndex = 0
    /\ getCurrentTexture(Gpu) = "tex0"
    /\ getPreviousTexture(Gpu) = "tex1"
    /\ texContent["tex1"] = "frame"

\* C16: on a live PingPongFBO currentIndex is 0 or 1, the current and the
\* previous texture are the two distinct textures of the pair, and bind()
\* selects the framebuffer whose colour attachment is the current texture;
\* bind, unbind, resize and clear leave currentIndex unchanged: only swap()
\* changes it.
C16_IndexSelectsPair ==
    /\ [](Live =>
            /\ currentIndex \in {0, 1}
            /\ {getCurrentTexture(Gpu), getPreviousTexture(Gpu)} = TexHandles
            /\ getCurrentTexture(Gpu) # getPreviousTexture(Gpu))
    /\ []((Live /\ gpuOp = "bind") =>
            /\ glFramebuffer \in FboHandles
            /\ ColorAttachment[glFramebuffer] = getCurrentTexture(Gpu))
    /\ [][gpuOp' \in {"bind", "unbind", "resize", "clear"} =>
            currentIndex' = currentIndex]_vars
    /\ [][currentIndex' # currentIndex => gpuOp' = "swap"]_vars

\* bind() after an odd number of swaps selects the second framebuffer
C16_Witness ==
    /\ gpuOp = "bind"
    /\ Live
    /\ currentIndex = 1
    /\ glFramebuffer = "fbo1"
    /\ getCurrentTexture(Gpu) = "tex1"

\* C18: resize(w, h) with the current dimensions is a no-op: it issues no
\* WebGL call and leaves texture identities, contents, dimensions and
\* currentIndex (and all other GPU state) unchanged; hence resize(w, h)
\* twice in a row leaves the same state as resize(w, h) once.
C18_ResizeSameIsNoop ==
    /\ [][(gpuOp' = "resize" /\ width' = width /\ height' = height) =>
            /\ glCalls' = <<>>
            /\ UNCHANGED <<fboVars, glVars>>]_vars
    /\ [](\A w \in Sizes, h \in Sizes :
            /\ resize(Effect(resize(Gpu, w, h)), w, h) = Effect(resize(Gpu, w, h))
            /\ (w = width /\ h = height) => resize(Gpu, w, h) = Gpu)

\* resize() to the current size of a live surface holding a drawn frame
C18_Witness ==
    /\ gpuOp = "resize"
    /\ glCalls = <<>>
    /\ Live
    /\ width = MaxSize
    /\ currentIndex = 1
    /\ texContent["tex1"] = "frame"

\* C20: across any sequence of PingPongFBO operations, destroy() repeated
\* included, each framebuffer and each texture is deleted at most once,
\* and once destroy() was called all four have been deleted.
C20_NoDoubleFree ==
    /\ \A x \in FboHandles \cup TexHandles : glDeleted[x] <= 1
    /\ (gpuOp = "destroy" \/ ~Live) =>
          \A x \in FboHandles \cup TexHandles : glDeleted[x] = 1
    /\ Live => \A x \in FboHandles \cup TexHandles : glDeleted[x] = 0

\* a destroy() that found nothing left to delete: destroy() called again
C20_Witness ==
    /\ gpuOp = "destroy"
    /\ glCalls = <<>>
    /\ \A x \in FboHandles \cup TexHandles : glDeleted[x] = 1

\* C13 as stated: whether the construction of a Program succeeds or fails,
\* every shader object created during it has been deleted when the
\* constructor returns or throws; on failure no program object remains
\* allocated, and the error of a compile or link failure carries the GPU
\* diagnostic text.
C13_ConstructionAtomic ==
    /\ gpuOp \in {"newProgram", "newProgramFailed"} => glShaders = 0
    /\ gpuOp = "newProgramFailed" =>
          /\ glPrograms = 0
          /\ program = "none"
          /\ gpuRet.error \in {"Shader compilation failed",
                "Failed to create shader program: Shader program linking failed"}
                => gpuRet.info # "none"

\* C14: setUniform for a name that is not in the cached uniform map does
\* not throw, issues no WebGL call (no upload) and leaves every uniform's
\* last-set value (and all other state) unchanged; hasUniform(name) holds
\* exactly for the names for which setUniform issues an upload for some
\* value; the cached map changes only in the constructor and in destroy().
C14_AbsentUniformIsNoop ==
    /\ [][(gpuOp' = "setUniform" /\ ~hasUniform(Gpu, gpuRet'.name)) =>
            /\ gpuRet'.error = "none"
            /\ glCalls' = <<>>
            /\ UNCHANGED <<programVars, glVars, fboVars>>]_vars
    /\ [](\A name \in UniformNames :
            hasUniform(Gpu, name) <=>
                \E uniform \in UniformValues :
                    setUniform(Gpu, name, uniform).glCalls # <<>>)
    /\ [][uniforms' # uniforms => gpuOp' \in {"newProgram", "destroyProgram"}]_vars

\* setUniform("u_gain") on a live program in use that has u_frame, already
\* set, but no (located) u_gain
C14_Witness ==
    /\ gpuOp = "setUniform"
    /\ gpuRet.name = "u_gain"
    /\ program = "live"
    /\ glProgramInUse = "current"
    /\ ~hasUniform(Gpu, "u_gain")
    /\ hasUniform(Gpu, "u_frame")
    /\ glUniformValue["u_frame"] = [type |-> "vec2", value |-> <<1, 2>>]

\* what a feedback texture holds that no preset has drawn into
NotDrawn == {"blank", "black", "freed"}

\* the runner holds a program and a preset
ActivePreset == program # "none" /\ currentPreset # "null"

\* C17 as stated: every render() call that runs with an active preset does
\* exactly one swap() and one frame-counter increment, both after the
\* composite (which samples the texture just rendered); the counter it
\* started with is the value uploaded as u_frame; so after k frames since
\* the last successful loadPreset the counter is k and currentIndex has
\* flipped k times.  A render() call with no active preset does neither.
C17_OneSwapPerFrame ==
    /\ [][(gpuOp' \in {"render", "renderThrew"} /\ ActivePreset) =>
            /\ frameCount' = frameCount + 1
            /\ currentIndex' = 1 - currentIndex
            /\ glUnits'[0] = getCurrentTexture(Gpu)
            /\ hasUniform(Gpu, "u_frame") =>
                  glUniformValue'["u_frame"] = [type |-> "int",
                                               value |-> <<frameCount>>]]_vars
    /\ [][(gpuOp' \in {"renderBlank", "renderThrew"} /\ ~ActivePreset) =>
            UNCHANGED <<frameCount, currentIndex>>]_vars
    /\ [](currentIndex = (loadIndex + frameCount) % 2)

\* C19 as stated: after loadPreset() returns, successfully or after a failed
\* load, neither feedback texture holds pixels written by the previously
\* active preset.
C19_LoadClearsFeedback ==
    gpuOp \in {"loadPreset", "loadPresetFailed"} =>
        \A t \in Range(textures) : texContent[t] \in NotDrawn

---------------------------------------------------------------------------
(* PresetRunner.render and loadPreset, step by step *)

\* the twelve steps of a frame, in the order the procedure gives them; the
\* update hook is a step of the presets that declare one
FrameSteps(declaresUpdate) ==
    <<"audio textures">>
    \o (IF declaresUpdate THEN <<"update hook">> ELSE <<>>)
    \o <<"bind", "use", "common uniforms", "preset uniforms", "bind textures",
         "draw", "unbind", "composite", "swap", "frame count">>

\* C21 as stated: every render() call with an active preset performs its
\* steps in the strict order audio texture upload, update hook, bind,
\* program activation, built-in uniforms, preset uniforms, texture units,
\* draw, unbind, composite, swap, frame-counter increment, none skipped or
\* reordered.
C21_StrictOrder ==
    [][(gpuOp' \in {"render", "renderThrew"} /\ ActivePreset) =>
          steps' = FrameSteps(CurrentHas(Gpu, "update"))]_vars

\* step 4 of this frame: the values setCommonUniforms uploads
BuiltInsUploaded ==
    setCommonUniforms(use(bind(updateAudioTextures(Gpu, AudioData))),
                      AudioData, now - startTime).glUniformValue

\* C22 as stated: whatever names a preset declares in its uniforms map,
\* uploading them leaves the built-in uniforms u_time, u_frame,
\* u_resolution, u_energy, u_bass, u_treble and u_beat at the values the
\* same frame uploaded for them.
C22_BuiltInsSurvivePresetUniforms ==
    [][gpuOp' = "render" =>
          \A n \in BuiltInUniforms :
              hasUniform(Gpu, n) => glUniformValue'[n] = BuiltInsUploaded[n]]_vars

\* the state the feedback-target draw of this render() call runs in
AtDraw ==
    renderSetup(renderUpdate(Gpu, AudioData,
                             IF CurrentHas(Gpu, "update") THEN "returns"
                             ELSE "absent"),
                AudioData, now - startTime)

\* the sampler uniform reads the unit
Reads(g, name, unit) ==
    g.glUniformValue[name] = [type |-> "sampler2D", value |-> <<unit>>]

C24_CompositeIsCopy ==
    [][(gpuOp' = "render" /\ frameCount' = frameCount + 1) =>
          /\ glFramebuffer' = "null"
          /\ glViewport' = [width |-> canvas.width, height |-> canvas.height]
          /\ glUnits'[0] = getCurrentTexture(Gpu)
          /\ \E i, j, k \in DOMAIN glCalls' :
                /\ i < j /\ j < k
                /\ glCalls'[i] = "drawArrays"
                /\ glCalls'[j] = "useProgram"
                /\ glCalls'[k] = "drawArrays"
          /\ Live => screen' = texContent'[getCurrentTexture(Gpu)]]_vars

\* the steps of loadPreset, in the order the claim gives them
LoadRank ==
    [s \in {"destroy hook", "release program", "new program", "init hook",
            "reset timing"} |->
        CASE s = "destroy hook" -> 1
          [] s = "release program" -> 2
          [] s = "new program" -> 3
          [] s = "init hook" -> 4
          [] s = "reset timing" -> 5]

\* C25: over any sequence of loadPreset() calls at most one compiled
\* program is alive in the pipeline at any time: loadPreset invokes the
\* outgoing preset's destroy hook, then deletes the outgoing program, and
\* only then creates the new one.
C25_OneProgramAlive ==
    /\ [](glPrograms <= 1)
    /\ [][gpuOp' \in {"loadPreset", "loadPresetFailed", "loadPresetThrew"} =>
            /\ \A i, j \in DOMAIN steps' :
                  i < j => LoadRank[steps'[i]] < LoadRank[steps'[j]]
            /\ (program = "live" /\ "new program" \in Range(steps')) =>
                  /\ glCalls'[1] = "deleteProgram"
                  /\ "release program" \in Range(steps')
            /\ CurrentHas(Gpu, "destroy") => steps'[1] = "destroy hook"]_vars

\* a preset with a destroy hook and a live program is replaced
C25_Witness ==
    /\ gpuOp = "loadPreset"
    /\ currentPreset = "tunnel"
    /\ steps = <<"destroy hook", "release program", "new program",
                 "reset timing">>
    /\ glPrograms = 1
    /\ program = "live"

\* the driver reported a compile or a link error to this call
BuildFailed(calls) ==
    \E i \in DOMAIN calls : calls[i] \in {"getShaderInfoLog", "getProgramInfoLog"}

\* C26: when shader compilation or linking fails inside loadPreset(), the
\* call returns without throwing and leaves the pipeline with no active
\* preset and no program; from then until the next successful loadPreset
\* every render() call only clears to the clear colour: no draw, no swap,
\* the frame counter unchanged.
C26_FailedLoadLeavesIdle ==
    /\ [][(gpuOp' \in {"loadPreset", "loadPresetFailed", "loadPresetThrew"}
             /\ BuildFailed(glCalls')) =>
            /\ gpuRet'.error = "none"
            /\ currentPreset' = "null"
            /\ program' = "none"]_vars
    /\ [][(IsIdle(Gpu) /\ gpuOp' \in {"render", "renderBlank", "renderThrew"}) =>
            /\ gpuOp' = "renderBlank"
            /\ glCalls' = <<"clearColor", "clear">>
            /\ glClearColor' = "black"
            /\ screen' = "black"
            /\ UNCHANGED <<frameCount, currentIndex, texContent, fboVars,
                           programVars, runnerVars>>]_vars
    /\ [][(IsIdle(Gpu) /\ program' # "none" /\ currentPreset' # "null") =>
            gpuOp' = "loadPreset"]_vars

\* render() after a preset that had drawn was replaced by one that does not
\* compile or does not link
C26_Witness ==
    /\ gpuOp = "renderBlank"
    /\ currentPreset = "null"
    /\ program = "none"
    /\ glShaders > 0
    /\ screen = "black"
    /\ \E t \in TexHandles : texContent[t] \notin NotDrawn

\* C27 as stated: a throwing update hook is a recoverable per-frame error:
\* the error is logged, only that step is skipped and the frame continues:
\* the surface is bound, the uniforms are uploaded, the draw and the
\* composite are issued, swap() is called and the frame counter is
\* incremented.
C27_ThrowingUpdateIsSkipped ==
    [][(ActivePreset /\ CurrentHas(Gpu, "update")
          /\ gpuOp' \in {"render", "renderThrew"}) =>
          /\ gpuRet'.error = "none"
          /\ {"bind", "use", "common uniforms", "preset uniforms",
              "bind textures", "draw", "composite", "swap"}
                \subseteq Range(steps')
          /\ frameCount' = frameCount + 1
          /\ currentIndex' = 1 - currentIndex]_vars

\* C28 as stated: loadPreset() invokes the lifecycle hooks defensively: when
\* the outgoing preset's destroy hook or the incoming preset's init hook
\* throws, the error is caught at the call site, loadPreset does not throw,
\* the outgoing preset's program is still released and the incoming preset
\* is still constructed.
C28_HooksCaughtInLoad ==
    [][gpuOp' \in {"loadPreset", "loadPresetFailed", "loadPresetThrew"} =>
          /\ gpuRet'.error = "none"
          /\ program = "live" => "release program" \in Range(steps')
          /\ "new program" \in Range(steps')]_vars

---------------------------------------------------------------------------
(* RenderLoop and the Visualizer's teardown *)

\* a step in which tick ran: on start(), or on a display refresh
Ticked == now' = now /\ gpuOp' \in {"start", "tick", "tickThrew"}

\* the callback called the loop's stop() or start() in this operation
Reentered(log) ==
    Range(log) \cap {"stop in callback", "restart in callback"} # {}

Invocations(log, name) == Cardinality({i \in DOMAIN log : log[i] = name})

\* C30 as stated: an error thrown by the render callback never unwinds out
\* of the scheduler: it is caught and logged inside that tick, the loop
\* stays running and the next frame is still scheduled; hence, while the
\* loop is running and stop() is not called, a frame request is pending and
\* every display refresh invokes the render callback again, whether or not
\* earlier invocations threw.
C30_CallbackErrorsStayInTick ==
    /\ [][(Ticked /\ "console.error" \in Range(steps') /\ ~Reentered(steps')) =>
            /\ gpuRet'.error = "none"
            /\ isRunning'
            /\ animationId' \in Range(pending')
            /\ Last(steps') = "requestAnimationFrame"]_vars
    /\ [][(Ticked /\ isRunning /\ gpuOp' # "start" /\ ~Reentered(steps')) =>
            /\ "callback" \in Range(steps')
            /\ isRunning'
            /\ animationId' \in Range(pending')]_vars
    /\ [](isRunning => pending # <<>>)


\* C29: the current preset's destroy hook is invoked once when the preset is
\* replaced and when the system is shut down, through PresetRunner.destroy()
\* or Visualizer.destroy(), and shutdown also releases the GPU resources: the
\* program, the surface's framebuffers and the audio textures
HookInvocations == Cardinality({i \in DOMAIN steps' : steps'[i] = "destroy hook"})

C29_DestroyHookOnShutdown ==
    /\ [][(gpuOp' \in {"loadPreset", "loadPresetFailed", "loadPresetThrew",
                      "destroyRunner", "destroyThrew", "destroyVisualizer"}
           /\ CurrentHas(Gpu, "destroy")) => HookInvocations = 1]_vars
    /\ [][gpuOp' \in {"destroyRunner", "destroyVisualizer"} =>
            /\ program' # "live"
            /\ fbos' = <<>>
            /\ \A x \in AudioTexHandles : glDeleted'[x] > 0]_vars


\* C31: stop() is idempotent and non-destructive: whenever it is called, and
\* however often, the loop is left stopped with no frame request pending, no
\* GPU or audio resource is touched, and a second stop() changes nothing; a
\* stopped loop does not invoke the render callback until start() is called,
\* and that start() invokes it and leaves one request pending, one per frame.
C31_StopIsIdempotent ==
    /\ [][gpuOp' = "stop" =>
            /\ ~isRunning' /\ animationId' = NoFrame /\ pending' = <<>>
            /\ glCalls' = <<>>
            /\ UNCHANGED <<fboVars, programVars, runnerVars, glVars,
                           analyzerVars>>]_vars
    /\ [][(gpuOp = "stop" /\ gpuOp' = "stop") => UNCHANGED loopVars]_vars
    /\ [][(now' = now /\ ~isRunning /\ gpuOp' # "start") =>
            "callback" \notin Range(steps')]_vars
    /\ [][(now' = now /\ ~isRunning /\ gpuOp' = "start"
           /\ ~Reentered(steps')) =>
            /\ isRunning'
            /\ Invocations(steps', "callback") = 1
            /\ Len(pending') = 1]_vars


\* C32: the render step runs once per display refresh: whatever start() and
\* stop() calls were made, from outside or from inside the render callback,
\* the browser holds at most one frame request of the loop, and a display
\* refresh invokes the render callback at most once.
C32_OncePerRefresh ==
    /\ [](Len(pending) <= 1)
    /\ [][(now' = now /\ gpuOp' \in {"tick", "tickThrew"}
           /\ "restart in callback" \notin Range(steps')) =>
            Invocations(steps', "callback") <= 1]_vars


\* C34: FPS observation is advisory: with or without an observer registered,
\* and whatever the observer does when it is invoked, throwing included, a
\* tick of a running loop invokes the render callback once and schedules the
\* next frame.
C34_FpsObservationIsAdvisory ==
    [][(/\ now' = now
        /\ gpuOp' \in {"tick", "tickThrew"}
        /\ isRunning
        /\ Len(pending) = 1
        /\ ~Reentered(steps')) =>
            /\ Invocations(steps', "callback") = 1
            /\ Last(steps') = "requestAnimationFrame"
            /\ animationId' \in Range(pending')]_vars

---------------------------------------------------------------------------
(* PresetRunner's program, surface size and GPU objects *)

\* C35 as stated: after every PresetRunner operation, returned or thrown,
\* the runner holds a compiled program if and only if it holds a preset,
\* also after a load whose init hook threw or whose shaders did not compile.
C35_ProgramIffPreset == (program # "none") <=> (currentPreset # "null")

\* C36 as stated: at every render the feedback surface has the size of the
\* canvas, the size uploaded as u_resolution and used for the display
\* viewport, after any resize calls made through Visualizer.resize or
\* PresetRunner.resize.
C36_SurfaceFollowsCanvas ==
    [][gpuOp' \in {"render", "renderBlank", "renderThrew"} =>
          /\ width' = canvas'.width
          /\ height' = canvas'.height]_vars

\* C37: no feedback loop is formed: at the feedback-target draw of every
\* frame of every preset, after any loadPreset, render and resize calls on a
\* runner that was not destroyed, the texture attached to the framebuffer
\* being written is bound to none of the texture units, so no sampler of the
\* program can read it; this holds also for a preset without
\* u_previousFrame, whose unit 0 keeps the texture the previous frame's
\* composite bound.
C37_NoFeedbackLoop ==
    [][(gpuOp' = "render" /\ Live) =>
          /\ AtDraw.glFramebuffer \in FboHandles
          /\ ColorAttachment[AtDraw.glFramebuffer] = getCurrentTexture(Gpu)
          /\ \A u \in Units :
                AtDraw.glUnits[u] # ColorAttachment[AtDraw.glFramebuffer]]_vars

\* the second frame of a preset without u_previousFrame: unit 0 held the
\* texture the first frame's composite bound, which the swap had made the
\* previous one
C37_Witness ==
    /\ gpuOp = "render"
    /\ ~hasUniform(Gpu, "u_previousFrame")
    /\ frameCount = 2
    /\ glUnits[0] = getPreviousTexture(Gpu)
    /\ glUnits[0] \in TexHandles

\* C39 as stated: across any sequence of loadPreset, render, resize and
\* destroy calls, destroy() twice and calls after destroy() included, no GPU
\* object of the runner (program, framebuffer, feedback texture, audio
\* texture, vertex array, vertex buffer) is deleted more than once, and none
\* is bound or used after it was deleted.
C39_NoDoubleDeleteNoUseAfterDelete ==
    /\ [](\A x \in Handles : glDeleted[x] <= 1)
    /\ [][program = "deleted" =>
            Range(glCalls') \cap {"deleteProgram", "useProgram"} = {}]_vars
    /\ [][gpuOp' = "render" =>
            /\ program = "live"
            /\ \A x \in Handles : glDeleted[x] = 0]_vars

---------------------------------------------------------------------------
(* BeatDetector's tunables and its first beat *)

\* C33: setBeatThreshold() and setMinimumInterval() change only the tunable
\* they name: the other tunable, the energy history, the last-beat timestamp
\* and isBeat() are as before the call; and an update() decides with the
\* tunables as they were last set, the interval being measured against the
\* last-beat timestamp already recorded.
C33_SettersChangeOnlyTheTunable ==
    /\ [][(threshold' # threshold \/ minimumInterval' # minimumInterval) =>
            /\ threshold' = threshold \/ minimumInterval' = minimumInterval
            /\ UNCHANGED <<energyHistory, lastBeatTime, isCurrentlyBeat>>]_vars
    /\ [][(DetectorUpdate /\ ClaimFull(samples')) =>
            (isCurrentlyBeat' <=>
                /\ ClaimEnergyGate(ClaimHistoryOf(samples'), threshold)
                /\ ClaimVarianceGate(ClaimHistoryOf(samples'))
                /\ now - lastBeatTime >= minimumInterval)]_vars

\* both tunables were changed and the next update() reported a beat one
\* shortened interval after the recorded last-beat timestamp, sooner than the
\* constructor's interval allows
C33_Witness ==
    /\ threshold # DefaultConfig.threshold
    /\ minimumInterval < DefaultConfig.minimumInterval
    /\ ClaimFull(samples)
    /\ isCurrentlyBeat
    /\ lastBeatTime = now
    /\ now < DefaultConfig.minimumInterval


\* C38 as stated: the debounce suppresses a beat only relative to a beat that
\* was emitted: while no beat has been emitted since construction or the last
\* reset(), an update() that leaves the history full with the energy and the
\* variance gates met reports a beat, whatever the clock reads.
C38_FirstBeatIsNotDebounced ==
    [][(/\ DetectorUpdate
        /\ prevBeat = NoBeat
        /\ lastBeatTime = FreshDetector.lastBeatTime
        /\ ClaimFull(samples')
        /\ ClaimEnergyGate(ClaimHistoryOf(samples'), threshold)
        /\ ClaimVarianceGate(ClaimHistoryOf(samples'))) => isCurrentlyBeat']_vars

=============================================================================
